---- MODULE Spec2Model ----
(***************************************************************************)
(* Selective-Repeat sender (A) and receiver (B) of sr.c, with the channel  *)
(* and the timer primitive they are driven by.                             *)
(***************************************************************************)
EXTENDS Integers, Sequences, FiniteSets, TLC

(* ---------------- program constants (sr.c) ---------------- *)
WINDOWSIZE == 6
SEQSPACE == 12
NOTINUSE == -1

(* ---------------- bounds of the model ---------------- *)
\* messages the application submits in the closed system
MaxMsgs == 3
\* packets in flight per channel direction
MaxChan == 2
\* cap of packets_resent
MaxResent == 2
\* cap of window_full
MaxFull == 1
\* cap of new_ACKs
MaxAcks == 2
\* cap of packets_received
MaxRecv == 3
\* deliveries after which the receiver-only specification takes no more packets
MaxDeliv == 1
MaxWide == 7

Slots == 0 .. (WINDOWSIZE - 1)

(* ---------------- packets and the checksum ---------------- *)
\* The 20 payload bytes of a packet are all the same character; the model
\* keeps their sum.  Message k of the application is 20 times 'a'+k.
PAYLOADLEN == 20
Msg(k) == PAYLOADLEN * (97 + (k % 26))
\* payload of an ACK: 20 times '0'
AckPayload == PAYLOADLEN * 48

ComputeChecksum(packet) == packet.seqnum + packet.acknum + packet.payload

IsCorrupted(packet) == packet.checksum # ComputeChecksum(packet)

MkPkt(seq, ack, payload) ==
  LET p == [seqnum |-> seq, acknum |-> ack, payload |-> payload, checksum |-> 0]
  IN  [p EXCEPT !.checksum = ComputeChecksum(p)]

\* static storage is zero-initialised
ZeroPkt == [seqnum |-> 0, acknum |-> 0, payload |-> 0, checksum |-> 0]

(* ---------------- the channel (emulator) ---------------- *)
\* What the emulator may do with a packet handed to tolayer3: lose it, pass
\* it on, or overwrite the first payload byte with 'Z', the seqnum or the
\* acknum with 999999 (the checksum is never rewritten).  On a data packet
\* the model overwrites the payload or the seqnum, on an ACK the payload or
\* the acknum.
DataFateSet == {"lost", "ok", "cpayload", "cseq"}
AckFateSet == {"lost", "ok", "cpayload", "cack"}

Corrupt(p, fate) ==
  CASE fate = "cpayload" -> [p EXCEPT !.payload = p.payload - (p.payload \div PAYLOADLEN) + 90]
    [] fate = "cseq"     -> [p EXCEPT !.seqnum = 999999]
    [] fate = "cack"     -> [p EXCEPT !.acknum = 999999]
    [] OTHER             -> p

\* The channel after the packets of `sent` (none or one) were handed to it,
\* the emulator choosing `fate`.
Enq(chan, sent, fate) ==
  IF sent = <<>> \/ fate = "lost" THEN chan ELSE Append(chan, Corrupt(sent[1], fate))

VARIABLES
  buffer, windowfirst, windowlast, windowcount, A_nextseqnum, acked, timer_running,
  window_full, packets_resent, new_ACKs, packets_received,
  expectedseqnum, B_nextseqnum, recv_buffer, received,
  timer_pending, dataChan, ackChan,
  sentMsgs, delivered, ev

senderVars == <<buffer, windowfirst, windowlast, windowcount, A_nextseqnum, acked, timer_running>>
statVars == <<window_full, packets_resent, new_ACKs>>
receiverVars == <<expectedseqnum, B_nextseqnum, recv_buffer, received, packets_received>>
histVars == <<sentMsgs, delivered>>
vars == <<senderVars, statVars, receiverVars, timer_pending, dataChan, ackChan, histVars, ev>>

(* ---------------- the timer primitive (emulator) ---------------- *)
\* One entry of the log of timer calls a callback made: the call and whether
\* a timer was pending in the primitive when it was made.
TimerOp(op, pending) == [op |-> op, pending |-> pending]

\* What a callback did: the packet it was given, the packets it handed to
\* tolayer3, its timer calls, the number of payloads it gave to tolayer5.
Event(op, pkt, sent, timer, deliv) ==
  [op |-> op, pkt |-> pkt, sent |-> sent, timer |-> timer, deliv |-> deliv]

\* A statistics counter of the emulator, capped at `max`.  SpecA guards the
\* calls that count rejections and retransmissions, so there the cap is never
\* met.  total_ACKs_received, which nothing reads, is not kept.
Bump(c, max) == IF c < max THEN c + 1 ELSE c

(* ---------------- A_init, B_init ---------------- *)
A_init ==
  /\ A_nextseqnum = 0
  /\ windowfirst = 0
  /\ windowlast = -1
  /\ windowcount = 0
  /\ timer_running = FALSE
  /\ acked = [i \in Slots |-> FALSE]
  /\ buffer = [i \in Slots |-> ZeroPkt]

B_init ==
  /\ expectedseqnum = 0
  /\ B_nextseqnum = 1
  /\ received = [i \in Slots |-> FALSE]
  /\ recv_buffer = [i \in Slots |-> ZeroPkt]

Init ==
  /\ A_init
  /\ B_init
  /\ window_full = 0 /\ packets_resent = 0 /\ new_ACKs = 0 /\ packets_received = 0
  /\ timer_pending = FALSE
  /\ dataChan = <<>> /\ ackChan = <<>>
  /\ sentMsgs = <<>> /\ delivered = <<>>
  /\ ev = Event("init", ZeroPkt, <<>>, <<>>, 0)

(* ---------------- A_output ---------------- *)
\* line 80: the timer is started for the first packet of the window
StartOnSend(count, running) == count = 1 /\ ~running

\* line 88: the sequence number after `seq`
NextSeq_nowrap(seq) == seq + 1
NextSeq(seq) == (seq + 1) % SEQSPACE

WindowNotFull_m(count) == count <= WINDOWSIZE
WindowNotFull(count) == count < WINDOWSIZE

A_outputCore(message) ==
  IF WindowNotFull(windowcount)
  THEN LET sendpkt == MkPkt(A_nextseqnum, NOTINUSE, message)
           last    == (windowlast + 1) % WINDOWSIZE
           start   == StartOnSend(windowcount + 1, timer_running)
       IN  /\ windowlast' = last
           /\ buffer' = [buffer EXCEPT ![last] = sendpkt]
           /\ acked' = [acked EXCEPT ![last] = FALSE]
           /\ windowcount' = windowcount + 1
           /\ timer_pending' = (timer_pending \/ start)
           /\ timer_running' = (timer_running \/ start)
           /\ A_nextseqnum' = NextSeq(A_nextseqnum)
           /\ ev' = Event("A_output", ZeroPkt, <<sendpkt>>,
                          IF start THEN <<TimerOp("start", timer_pending)>> ELSE <<>>, 0)
           /\ UNCHANGED <<windowfirst, window_full>>
  ELSE /\ window_full' = Bump(window_full, MaxFull)
       /\ ev' = Event("A_output", ZeroPkt, <<>>, <<>>, 0)
       /\ UNCHANGED <<senderVars, timer_pending>>

(* ---------------- A_input ---------------- *)
\* line 112: the sender's in-window test of an acknum
InWindowA_wide(acknum, seqfirst, seqlast) ==
  ((acknum - seqfirst + SEQSPACE) % SEQSPACE) <= WINDOWSIZE - 1
InWindowA(acknum, seqfirst, seqlast) ==
  LET dist_first == (acknum - seqfirst + SEQSPACE) % SEQSPACE
      dist_last  == (seqlast - seqfirst + SEQSPACE) % SEQSPACE
  IN  dist_first <= dist_last

\* lines 125-134: the offsets from windowfirst whose slot holds `acknum` unacknowledged
Matches(acknum, first, buf, ak) ==
  { i \in Slots : buf[(first + i) % WINDOWSIZE].seqnum = acknum /\ ~ak[(first + i) % WINDOWSIZE] }

Min(S) == CHOOSE x \in S : \A y \in S : x <= y

MarkAcked(acknum, first, buf, ak) ==
  LET m == Matches(acknum, first, buf, ak)
  IN  IF m = {} THEN ak ELSE [ak EXCEPT ![(first + Min(m)) % WINDOWSIZE] = TRUE]

\* lines 156-163: the number of slots the window slides over
RECURSIVE SlideCount_m(_, _, _)
SlideCount_m(count, first, ak) ==
  IF count > 0 /\ (ak[first] \/ ak[(first + 1) % WINDOWSIZE])
  THEN 1 + SlideCount_m(count - 1, (first + 1) % WINDOWSIZE, ak)
  ELSE 0
RECURSIVE SlideCount(_, _, _)
SlideCount(count, first, ak) ==
  IF count > 0 /\ ak[first]
  THEN 1 + SlideCount(count - 1, (first + 1) % WINDOWSIZE, ak)
  ELSE 0

\* lines 166-169: the flags of the slots slid over are cleared
ResetSlid(ak, newfirst, slid) ==
  [j \in Slots |->
     IF \E i \in 0 .. (slid - 1) : j = (newfirst - slid + i + WINDOWSIZE) % WINDOWSIZE
     THEN FALSE ELSE ak[j]]

\* line 147: the timer is stopped once the oldest packet is acknowledged
StopOnAck(running, ackedFirst) == running /\ ackedFirst

\* line 183: the timer is started again for the packets left after the slide
RestartAfterSlide_never(count, ackedFirst, running) == FALSE
RestartAfterSlide_always(count, ackedFirst, running) == count > 0 /\ ~ackedFirst
RestartAfterSlide(count, ackedFirst, running) == count > 0 /\ ~ackedFirst /\ ~running

A_inputCore(packet) ==
  IF ~IsCorrupted(packet) /\ windowcount # 0
     /\ InWindowA(packet.acknum, buffer[windowfirst].seqnum, buffer[windowlast].seqnum)
  THEN LET ak1      == MarkAcked(packet.acknum, windowfirst, buffer, acked)
           stop     == StopOnAck(timer_running, ak1[windowfirst])
           running1 == timer_running /\ ~stop
           pending1 == timer_pending /\ ~stop
           slid     == SlideCount(windowcount, windowfirst, ak1)
           count1   == windowcount - slid
           first1   == (windowfirst + slid) % WINDOWSIZE
           ak2      == ResetSlid(ak1, first1, slid)
           start    == RestartAfterSlide(count1, ak2[first1], running1)
       IN  /\ new_ACKs' = Bump(new_ACKs, MaxAcks)
           /\ acked' = ak2
           /\ windowcount' = count1
           /\ windowfirst' = first1
           /\ timer_running' = (running1 \/ start)
           /\ timer_pending' = (pending1 \/ start)
           /\ ev' = Event("A_input", packet, <<>>,
                          (IF stop THEN <<TimerOp("stop", timer_pending)>> ELSE <<>>)
                          \o (IF start THEN <<TimerOp("start", pending1)>> ELSE <<>>), 0)
           /\ UNCHANGED <<buffer, windowlast, A_nextseqnum>>
  ELSE /\ ev' = Event("A_input", packet, <<>>, <<>>, 0)
       /\ UNCHANGED <<senderVars, new_ACKs, timer_pending>>

(* ---------------- A_timerinterrupt ---------------- *)
\* line 205: the packet a timeout retransmits
Resend_m(buf, first, last) == buf[last]
Resend(buf, first, last) == buf[first]

\* Runs when the pending timer expires; the expiry leaves no timer pending.
A_timerinterruptCore ==
  IF windowcount > 0 /\ ~acked[windowfirst]
  THEN /\ packets_resent' = Bump(packets_resent, MaxResent)
       /\ timer_running' = TRUE
       /\ timer_pending' = TRUE
       /\ ev' = Event("A_timerinterrupt", ZeroPkt, <<Resend(buffer, windowfirst, windowlast)>>,
                      (IF timer_running THEN <<TimerOp("stop", FALSE)>> ELSE <<>>)
                      \o <<TimerOp("start", FALSE)>>, 0)
       /\ UNCHANGED <<buffer, windowfirst, windowlast, windowcount, A_nextseqnum, acked>>
  ELSE /\ timer_pending' = FALSE
       /\ ev' = Event("A_timerinterrupt", ZeroPkt, <<>>, <<>>, 0)
       /\ UNCHANGED <<senderVars, packets_resent>>

(* ---------------- B_input ---------------- *)
\* lines 252-255: the receiver's in-window test of a seqnum
InWindowB_all(seqnum, expected) == TRUE
InWindowB_nowrap(seqnum, expected) ==
  seqnum >= expected /\ seqnum <= expected + WINDOWSIZE - 1
InWindowB(seqnum, expected) ==
  LET window_start == expected
      window_end   == (expected + WINDOWSIZE - 1) % SEQSPACE
  IN  \/ (window_start <= window_end /\ (seqnum >= window_start /\ seqnum <= window_end))
      \/ (window_start > window_end /\ (seqnum >= window_start \/ seqnum <= window_end))

\* lines 261-267: the first free slot of the reorder buffer, -1 when there is none
FirstFree_last(rcv) ==
  IF ~rcv[WINDOWSIZE - 1] THEN WINDOWSIZE - 1 ELSE -1
FirstFree(rcv) ==
  IF \E i \in Slots : ~rcv[i] THEN Min({ i \in Slots : ~rcv[i] }) ELSE -1

\* line 289: slot i holds the packet to deliver next
Deliverable_m(i, rb, rcv, expected) == rcv[i]
Deliverable(i, rb, rcv, expected) == rcv[i] /\ rb[i].seqnum = expected

\* lines 285-302: the delivery loop; `out` collects what tolayer5 is given
DeliverLoop_m(rb, rcv, expected, max_deliveries, out) ==
  LET hit == { i \in Slots : Deliverable(i, rb, rcv, expected) }
  IN  IF max_deliveries > 0 /\ hit # {}
      THEN [rcv |-> [rcv EXCEPT ![Min(hit)] = FALSE], expected |-> (expected + 1) % SEQSPACE,
            out |-> Append(out, [seqnum |-> rb[Min(hit)].seqnum,
                                 payload |-> rb[Min(hit)].payload])]
      ELSE [rcv |-> rcv, expected |-> expected, out |-> out]
RECURSIVE DeliverLoop(_, _, _, _, _)
DeliverLoop(rb, rcv, expected, max_deliveries, out) ==
  LET hit == { i \in Slots : Deliverable(i, rb, rcv, expected) }
  IN  IF max_deliveries > 0 /\ hit # {}
      THEN DeliverLoop(rb, [rcv EXCEPT ![Min(hit)] = FALSE], (expected + 1) % SEQSPACE,
                       max_deliveries - 1,
                       Append(out, [seqnum |-> rb[Min(hit)].seqnum,
                                    payload |-> rb[Min(hit)].payload]))
      ELSE [rcv |-> rcv, expected |-> expected, out |-> out]

B_inputCore(packet) ==
  LET buffer_index == FirstFree(received)
  IN  IF ~IsCorrupted(packet) /\ InWindowB(packet.seqnum, expectedseqnum) /\ buffer_index >= 0
      THEN LET rb1     == [recv_buffer EXCEPT ![buffer_index] = packet]
               rcv1    == [received EXCEPT ![buffer_index] = TRUE]
               sendpkt == MkPkt(B_nextseqnum, packet.seqnum, AckPayload)
               d       == DeliverLoop(rb1, rcv1, expectedseqnum, WINDOWSIZE, <<>>)
           IN  /\ recv_buffer' = rb1
               /\ received' = d.rcv
               /\ packets_received' = Bump(packets_received, MaxRecv)
               /\ B_nextseqnum' = (B_nextseqnum + 1) % 2
               /\ expectedseqnum' = d.expected
               /\ delivered' = delivered \o d.out
               /\ ev' = Event("B_input", packet, <<sendpkt>>, <<>>, Len(d.out))
      ELSE /\ ev' = Event("B_input", packet, <<>>, <<>>, 0)
           /\ UNCHANGED <<receiverVars, delivered>>

(* ---------------- the closed system ---------------- *)
\* mode "sys": the channel may lose or corrupt any packet, and loses what is
\* sent while MaxChan packets are in flight.  mode "lostack": the channel
\* may lose or corrupt the first ACK and nothing else, and the timer expires
\* only when nothing is in flight (the timeout exceeds the round trip).
\* mode "wide": the channel may lose any packet but corrupts none, the timer
\* expires only when nothing is in flight, and the application offers MaxWide
\* messages, more than the window holds.
DataFates(mode) ==
  IF mode = "lostack" THEN {"ok"}
  ELSE IF mode = "wide" THEN (IF Len(dataChan) < MaxChan THEN {"lost", "ok"} ELSE {"lost"})
  ELSE IF Len(dataChan) < MaxChan THEN DataFateSet ELSE {"lost"}

AckFates(mode) ==
  IF mode = "lostack" THEN (IF packets_received = 0 THEN AckFateSet ELSE {"ok"})
  ELSE IF mode = "wide" THEN (IF Len(ackChan) < MaxChan THEN {"lost", "ok"} ELSE {"lost"})
  ELSE IF Len(ackChan) < MaxChan THEN AckFateSet ELSE {"lost"}

MsgBound(mode) == IF mode = "wide" THEN MaxWide ELSE MaxMsgs

Sys_A_output(mode) ==
  /\ Len(sentMsgs) < MsgBound(mode)
  /\ mode = "lostack" => Len(dataChan) < MaxChan
  /\ \E message \in { Msg(Len(sentMsgs)) } :
       /\ A_outputCore(message)
       /\ sentMsgs' = IF WindowNotFull(windowcount) THEN Append(sentMsgs, message) ELSE sentMsgs
  /\ \E fate \in DataFates(mode) : dataChan' = Enq(dataChan, ev'.sent, fate)
  /\ UNCHANGED <<packets_resent, new_ACKs, receiverVars, ackChan, delivered>>

Sys_A_input(mode) ==
  /\ ackChan # <<>>
  /\ A_inputCore(Head(ackChan))
  /\ ackChan' = Tail(ackChan)
  /\ UNCHANGED <<window_full, packets_resent, receiverVars, dataChan, histVars>>

Sys_A_timerinterrupt(mode) ==
  /\ timer_pending
  /\ mode \in {"lostack", "wide"} => (dataChan = <<>> /\ ackChan = <<>>)
  /\ A_timerinterruptCore
  /\ \E fate \in DataFates(mode) : dataChan' = Enq(dataChan, ev'.sent, fate)
  /\ UNCHANGED <<window_full, new_ACKs, receiverVars, ackChan, histVars>>

Sys_B_input(mode) ==
  /\ dataChan # <<>>
  /\ mode = "lostack" => Len(ackChan) < MaxChan
  /\ B_inputCore(Head(dataChan))
  /\ dataChan' = Tail(dataChan)
  /\ \E fate \in AckFates(mode) : ackChan' = Enq(ackChan, ev'.sent, fate)
  /\ UNCHANGED <<senderVars, statVars, timer_pending, sentMsgs>>

A_output == Sys_A_output("sys")
A_input == Sys_A_input("sys")
A_timerinterrupt == Sys_A_timerinterrupt("sys")
B_input == Sys_B_input("sys")

Next == A_output \/ A_input \/ A_timerinterrupt \/ B_input

Spec == Init /\ [][Next]_vars

(* ---------------- scenario: only the first ACK may fail ---------------- *)
LA_output == Sys_A_output("lostack")
LA_input == Sys_A_input("lostack")
LA_timerinterrupt == Sys_A_timerinterrupt("lostack")
LB_input == Sys_B_input("lostack")

NextLostAck == LA_output \/ LA_input \/ LA_timerinterrupt \/ LB_input

SpecLostAck == Init /\ [][NextLostAck]_vars

(* ---------------- scenario: more messages than the window holds ---------------- *)
WA_output == Sys_A_output("wide")
WA_input == Sys_A_input("wide")
WA_timerinterrupt == Sys_A_timerinterrupt("wide")
WB_input == Sys_B_input("wide")

NextWide == WA_output \/ WA_input \/ WA_timerinterrupt \/ WB_input

SpecWide == Init /\ [][NextWide]_vars

(* ---------------- the closed system under a fair channel ---------------- *)
\* A timeout whose retransmission the channel passes on intact, and an
\* arrival at B whose ACK the channel passes on intact.
ResendIntact == A_timerinterrupt /\ ev'.sent # <<>> /\ dataChan' = Append(dataChan, ev'.sent[1])
AckIntact == B_input /\ ev'.sent # <<>> /\ ackChan' = Append(ackChan, ev'.sent[1])

\* Every packet in flight arrives, a pending timer expires, and a packet sent
\* again and again gets through intact again and again.
Fairness ==
  /\ WF_vars(A_input) /\ WF_vars(B_input) /\ WF_vars(A_timerinterrupt)
  /\ SF_vars(ResendIntact) /\ SF_vars(AckIntact)

LiveSpec == Init /\ [][Next]_vars /\ Fairness

(* ---------------- the sender alone, under any calls ---------------- *)
\* The ACK packets the sender may be handed: any acknum, intact or corrupted.
AnyAcks ==
  { MkPkt(0, a, AckPayload) : a \in NOTINUSE .. (SEQSPACE - 1) }
    \cup { Corrupt(MkPkt(0, 0, AckPayload), "cack") }

OnlyA == UNCHANGED <<receiverVars, dataChan, ackChan, histVars>>

SA_output ==
  /\ windowcount = WINDOWSIZE => window_full < MaxFull
  /\ \E message \in {Msg(0)} : A_outputCore(message)
  /\ UNCHANGED <<packets_resent, new_ACKs>>
  /\ OnlyA

SA_input ==
  /\ \E packet \in AnyAcks : A_inputCore(packet)
  /\ UNCHANGED <<window_full, packets_resent>>
  /\ OnlyA

SA_timerinterrupt ==
  /\ timer_pending
  /\ packets_resent < MaxResent
  /\ A_timerinterruptCore
  /\ UNCHANGED <<window_full, new_ACKs>>
  /\ OnlyA

NextA == SA_output \/ SA_input \/ SA_timerinterrupt

SpecA == Init /\ [][NextA]_vars

(* ---------------- the receiver alone, under any arrivals ---------------- *)
\* B after `e` packets arrived intact and in order: each was stored in slot 0
\* and delivered at once.
AfterInOrder(e) ==
  /\ expectedseqnum = e % SEQSPACE
  /\ B_nextseqnum = (1 + e) % 2
  /\ received = [i \in Slots |-> FALSE]
  /\ recv_buffer = [i \in Slots |->
                      IF i = 0 /\ e > 0
                      THEN MkPkt((e - 1) % SEQSPACE, NOTINUSE, Msg(e - 1)) ELSE ZeroPkt]
  /\ packets_received = (IF e < MaxRecv THEN e ELSE MaxRecv)

\* `delivered` holds the deliveries made after the initial state.
InitB ==
  /\ A_init
  /\ \E e \in 0 .. (SEQSPACE - 1) : AfterInOrder(e)
  /\ window_full = 0 /\ packets_resent = 0 /\ new_ACKs = 0
  /\ timer_pending = FALSE
  /\ dataChan = <<>> /\ ackChan = <<>>
  /\ sentMsgs = <<>> /\ delivered = <<>>
  /\ ev = Event("init", ZeroPkt, <<>>, <<>>, 0)

\* The data packets the receiver may be handed: any seqnum intact, or a
\* corrupted packet.
AnyData ==
  { MkPkt(s, NOTINUSE, Msg(s)) : s \in 0 .. (SEQSPACE - 1) }
    \cup { Corrupt(MkPkt(0, NOTINUSE, Msg(0)), "cseq") }

\* The receiver is handed no packet it still holds in its buffer.
RB_input ==
  /\ Len(delivered) < MaxDeliv
  /\ \E packet \in AnyData :
       /\ \A i \in Slots : received[i] => recv_buffer[i].seqnum # packet.seqnum
       /\ B_inputCore(packet)
  /\ UNCHANGED <<senderVars, statVars, timer_pending, dataChan, ackChan, sentMsgs>>

NextB == RB_input

SpecB == InitB /\ [][NextB]_vars

(* ======================= properties ======================= *)
\* the offsets from windowfirst of the occupied slots of the sender window
Occupied == 0 .. (windowcount - 1)
SlotAt(i) == (windowfirst + i) % WINDOWSIZE
\* the step is a call of callback `op`
Called(op) == ev'.op = op
\* a seqnum the receiver has already delivered and may still see again
BelowWindow(seqnum, expected) ==
  ((expected - seqnum + SEQSPACE) % SEQSPACE) \in 1 .. WINDOWSIZE
Buffered(seqnum) == \E i \in Slots : received[i] /\ recv_buffer[i].seqnum = seqnum

C2_EventuallyDelivered ==
  \A k \in 1 .. MaxMsgs :
    (Len(sentMsgs) >= k) ~> (Len(delivered) >= k /\ delivered[k].payload = sentMsgs[k])

\* C3: 0 <= windowcount <= WINDOWSIZE whatever calls the sender receives.
C3_WindowCountBounded == 0 <= windowcount /\ windowcount <= WINDOWSIZE

\* the window is full, a message has been rejected and ACKs have been taken
C3_Witness == windowcount = WINDOWSIZE /\ window_full > 0 /\ new_ACKs > 0

\* C4: A_output called with a full window counts one rejection, sends
\* nothing, makes no timer call and leaves the sender's window state alone.
C4_RejectWhenFull ==
  [][ (Called("A_output") /\ windowcount = WINDOWSIZE) =>
        /\ window_full' = window_full + 1
        /\ ev'.sent = <<>>
        /\ ev'.timer = <<>>
        /\ UNCHANGED <<windowfirst, windowlast, windowcount, A_nextseqnum, buffer, acked>>
        /\ UNCHANGED <<timer_running, timer_pending>> ]_vars

\* a call of A_output has just been rejected
C4_Witness ==
  ev.op = "A_output" /\ ev.sent = <<>> /\ windowcount = WINDOWSIZE /\ window_full = 1

\* C5: an intact packet below the window or already buffered is neither
\* delivered nor buffered again, and is answered by exactly one ACK that
\* echoes its seqnum.
C5_ReAckDuplicate ==
  [][ ( /\ Called("B_input")
        /\ ~IsCorrupted(ev'.pkt)
        /\ (BelowWindow(ev'.pkt.seqnum, expectedseqnum) \/ Buffered(ev'.pkt.seqnum)) ) =>
        /\ UNCHANGED <<delivered, received, recv_buffer, expectedseqnum>>
        /\ Len(ev'.sent) = 1
        /\ ev'.sent[1].acknum = ev'.pkt.seqnum ]_vars

\* C6: a corrupted packet at B is answered by an ACK for expectedseqnum - 1
\* (mod SEQSPACE); nothing is buffered or delivered.
C6_CorruptReassert ==
  [][ (Called("B_input") /\ IsCorrupted(ev'.pkt)) =>
        /\ Len(ev'.sent) = 1
        /\ ev'.sent[1].acknum = (expectedseqnum - 1 + SEQSPACE) % SEQSPACE
        /\ UNCHANGED <<delivered, received, recv_buffer, expectedseqnum>> ]_vars

\* C7: a timeout with a non-empty window resends exactly the packet at
\* windowfirst, counts one retransmission, leaves the timer pending and the
\* window state unchanged.
C7_ResendOldestOnly ==
  [][ (Called("A_timerinterrupt") /\ windowcount > 0) =>
        /\ ev'.sent = <<buffer[windowfirst]>>
        /\ packets_resent' = packets_resent + 1
        /\ timer_pending'
        /\ UNCHANGED <<windowfirst, windowlast, windowcount, A_nextseqnum, acked, buffer>> ]_vars

\* a timeout has resent the oldest packet while a younger one is acknowledged
C7_Witness ==
  /\ ev.op = "A_timerinterrupt" /\ Len(ev.sent) = 1
  /\ windowcount >= 3
  /\ ev.sent[1] = buffer[windowfirst]
  /\ ev.sent[1] # buffer[windowlast]
  /\ \E i \in Occupied : acked[SlotAt(i)]

\* C8: an intact ACK for an occupied slot other than windowfirst marks that
\* slot and neither moves the window nor calls the timer; a slide passes only
\* slots that are acknowledged.
C8_PrefixContiguousSlide ==
  [][ Called("A_input") =>
        /\ \A i \in Occupied :
             ( /\ ~IsCorrupted(ev'.pkt)
               /\ i > 0
               /\ buffer[SlotAt(i)].seqnum = ev'.pkt.acknum ) =>
               /\ acked'[SlotAt(i)]
               /\ windowfirst' = windowfirst
               /\ windowcount' = windowcount
               /\ ev'.timer = <<>>
        /\ \A i \in 0 .. (windowcount - windowcount' - 1) :
             \/ acked[SlotAt(i)]
             \/ buffer[SlotAt(i)].seqnum = ev'.pkt.acknum ]_vars

\* an ACK for a younger packet has just been taken and the window has not moved
C8_Witness ==
  /\ ev.op = "A_input" /\ ~IsCorrupted(ev.pkt)
  /\ windowcount >= 2
  /\ \E i \in Occupied :
       i > 0 /\ buffer[SlotAt(i)].seqnum = ev.pkt.acknum /\ acked[SlotAt(i)]
  /\ ~acked[windowfirst]

\* C9: one message, its ACK not getting through and nothing else failing:
\* once the retransmission has been dealt with and nothing is in flight,
\* there was exactly one retransmission and one delivery, and the sender's
\* window is empty with its timer stopped.
C9_LostAckSettles ==
  (Len(sentMsgs) = 1 /\ packets_resent >= 1 /\ dataChan = <<>> /\ ackChan = <<>>) =>
    /\ packets_resent = 1
    /\ Len(delivered) = 1
    /\ windowcount = 0
    /\ ~timer_pending

\* C10: with expectedseqnum 0, an intact packet 1 or 2 is buffered and
\* nothing is delivered; when, of three messages submitted, packet 0 then
\* arrives with 1 and 2 buffered, the three payloads are delivered in the
\* order 0, 1, 2 and expectedseqnum becomes 3.
C10_BufferedUntilGapFilled ==
  [][ (Called("B_input") /\ ~IsCorrupted(ev'.pkt) /\ expectedseqnum = 0) =>
        /\ ev'.pkt.seqnum \in {1, 2} =>
             /\ delivered' = <<>>
             /\ expectedseqnum' = 0
             /\ \E i \in Slots : received'[i] /\ recv_buffer'[i] = ev'.pkt
        /\ (Len(sentMsgs) = 3 /\ ev'.pkt.seqnum = 0 /\ Buffered(1) /\ Buffered(2)) =>
             /\ Len(delivered') = 3
             /\ \A k \in 1 .. 3 :
                  delivered'[k] = [seqnum |-> k - 1, payload |-> sentMsgs[k]]
             /\ expectedseqnum' = 3 ]_vars

\* the retransmitted packet 0 has just released 0, 1 and 2 in one call
C10_Witness ==
  /\ Len(sentMsgs) = 3
  /\ ev.op = "B_input" /\ ev.pkt.seqnum = 0 /\ ev.deliv = 3
  /\ expectedseqnum = 3
  /\ packets_resent = 1

\* C11: B_input takes an intact packet as in-window (stores and acknowledges
\* it) exactly when (seqnum - expectedseqnum + SEQSPACE) mod SEQSPACE is below
\* WINDOWSIZE, and what a call delivers is an ascending run mod SEQSPACE from
\* expectedseqnum; so from 10 the packets 10, 11, 0, 1, 2 come out as one run.
C11_WrapAroundWindow ==
  [][ (Called("B_input") /\ ~IsCorrupted(ev'.pkt)) =>
        /\ FirstFree(received) >= 0 =>
             ( ev'.sent = <<MkPkt(B_nextseqnum, ev'.pkt.seqnum, AckPayload)>>
               <=> ((ev'.pkt.seqnum - expectedseqnum + SEQSPACE) % SEQSPACE) < WINDOWSIZE )
        /\ Len(delivered') = Len(delivered) + ev'.deliv
        /\ \A k \in 1 .. ev'.deliv :
             delivered'[Len(delivered) + k].seqnum = (expectedseqnum + k - 1) % SEQSPACE
        /\ expectedseqnum' = (expectedseqnum + ev'.deliv) % SEQSPACE ]_vars

\* expecting 10 and holding 11, 0, 1, 2, the receiver was handed 10 and
\* delivered the five in one call
C11_Witness ==
  /\ ev.op = "B_input" /\ ev.pkt.seqnum = 10 /\ ev.deliv = 5
  /\ expectedseqnum = 3
  /\ Len(delivered) = 5
  /\ \A k \in 1 .. 5 : delivered[k].seqnum = <<10, 11, 0, 1, 2>>[k]

\* C12: between callbacks the sender's timer is pending exactly when the
\* window holds unacknowledged packets, and a slide that leaves packets in
\* the window stops the timer and starts it again.
C12_TimerTracksWindow ==
  /\ [](timer_pending <=> windowcount > 0)
  /\ [][ (Called("A_input") /\ windowcount' < windowcount /\ windowcount' > 0) =>
           /\ ev'.timer = <<TimerOp("stop", TRUE), TimerOp("start", FALSE)>>
           /\ timer_pending' ]_vars

\* an ACK has just slid the window, packets remain and the timer was re-armed
C12_Witness ==
  /\ ev.op = "A_input" /\ Len(ev.timer) = 2
  /\ windowcount > 0 /\ timer_pending
  /\ windowfirst # 0

\* C13: starttimer is never called while a timer is pending.
C13_StartOnlyWhenIdle ==
  \A k \in 1 .. Len(ev.timer) : ev.timer[k].op = "start" => ~ev.timer[k].pending

\* each callback that starts the timer has done so: A_output for the first
\* packet, A_timerinterrupt after a timeout
C13_Witness ==
  /\ ev.op = "A_timerinterrupt"
  /\ \E k \in 1 .. Len(ev.timer) : ev.timer[k].op = "start"
  /\ windowcount >= 2 /\ new_ACKs > 0

\* C18: stoptimer is called only while a timer is pending.
C18_StopOnlyWhenPending ==
  \A k \in 1 .. Len(ev.timer) : ev.timer[k].op = "stop" => ev.timer[k].pending

\* C14: while the sender window holds packets, they sit in the windowcount
\* slots from windowfirst to windowlast (mod WINDOWSIZE), the slot at offset i
\* holds sequence number (buffer[windowfirst].seqnum + i) mod SEQSPACE, and
\* A_nextseqnum follows the sequence number in windowlast.
C14_WindowContiguous ==
  windowcount > 0 =>
    /\ windowlast = SlotAt(windowcount - 1)
    /\ \A i \in Occupied :
         buffer[SlotAt(i)].seqnum = (buffer[windowfirst].seqnum + i) % SEQSPACE
    /\ A_nextseqnum = (buffer[windowlast].seqnum + 1) % SEQSPACE

\* a full window whose slots and sequence numbers both wrap around
C14_Witness ==
  /\ windowcount = WINDOWSIZE
  /\ windowfirst > windowlast
  /\ buffer[windowfirst].seqnum > buffer[windowlast].seqnum

\* the ACK is intact and its acknum is a sequence number held by no occupied slot
AckOfNoSlot(p) ==
  /\ ~IsCorrupted(p)
  /\ p.acknum \in 0 .. (SEQSPACE - 1)
  /\ \A i \in Occupied : buffer[SlotAt(i)].seqnum # p.acknum

C17_DuplicateAckNotCounted ==
  [][ ( /\ Called("A_input") /\ ~IsCorrupted(ev'.pkt)
        /\ \E i \in Occupied :
             buffer[SlotAt(i)].seqnum = ev'.pkt.acknum /\ acked[SlotAt(i)] ) =>
        /\ UNCHANGED <<acked, windowfirst, windowcount>>
        /\ ev'.timer = <<>>
        /\ new_ACKs' = new_ACKs ]_vars

\* the occupied slots of B's reorder buffer
Held == { i \in Slots : received[i] }

\* C15: every occupied slot of B's reorder buffer holds a sequence number s
\* with (s - expectedseqnum + SEQSPACE) mod SEQSPACE < WINDOWSIZE, and none
\* holds expectedseqnum itself.
C15_BufferedInsideWindow ==
  \A i \in Held :
    /\ ((recv_buffer[i].seqnum - expectedseqnum + SEQSPACE) % SEQSPACE) < WINDOWSIZE
    /\ recv_buffer[i].seqnum # expectedseqnum

\* B has delivered some packets and holds all of the window but its first packet
C15_Witness ==
  /\ expectedseqnum >= 1
  /\ Cardinality(Held) = WINDOWSIZE - 1
  /\ \E i \in Held : recv_buffer[i].seqnum = (expectedseqnum + WINDOWSIZE - 1) % SEQSPACE

\* the number of packets that have slid out of the sender window
Slid == Len(sentMsgs) - windowcount
\* the place of a data packet in the sequence of accepted messages, from 0
AbsIndex(p) == CHOOSE k \in 0 .. (Len(sentMsgs) - 1) : sentMsgs[k + 1] = p.payload

\* C19: counting without wraparound, slid out <= delivered <= accepted <=
\* slid out + WINDOWSIZE; and the intact data packet about to arrive at
\* B_input is the k-th accepted message with k < delivered + WINDOWSIZE, which
\* the receiver takes as in-window exactly when k >= delivered.
C19_CountsChain ==
  /\ Slid <= Len(delivered)
  /\ Len(delivered) <= Len(sentMsgs)
  /\ Len(sentMsgs) <= Slid + WINDOWSIZE
  /\ (dataChan # <<>> /\ ~IsCorrupted(Head(dataChan))) =>
       LET p == Head(dataChan)
           k == AbsIndex(p)
       IN  /\ p.seqnum = k % SEQSPACE
           /\ k < Len(delivered) + WINDOWSIZE
           /\ InWindowB(p.seqnum, expectedseqnum) <=> k >= Len(delivered)

\* the window has slid and is full again, B is ahead of the sender, and a
\* retransmission of a packet B has delivered is about to arrive
C19_Witness ==
  /\ Slid > 0 /\ Len(sentMsgs) = Slid + WINDOWSIZE
  /\ Len(delivered) > Slid
  /\ dataChan # <<>> /\ ~IsCorrupted(Head(dataChan))
  /\ AbsIndex(Head(dataChan)) < Len(delivered)

\* C20: no two occupied slots of B's reorder buffer hold the same sequence
\* number, and an intact in-window packet arriving at B_input finds a free
\* slot, is not buffered yet, and is stored (or delivered at once) and
\* acknowledged.
C20_OneSlotPerSeqnum ==
  /\ [](\A i, j \in Held : recv_buffer[i].seqnum = recv_buffer[j].seqnum => i = j)
  /\ [][ ( /\ Called("B_input") /\ ~IsCorrupted(ev'.pkt)
           /\ InWindowB(ev'.pkt.seqnum, expectedseqnum) ) =>
           /\ FirstFree(received) >= 0
           /\ ~Buffered(ev'.pkt.seqnum)
           /\ ev'.sent = <<MkPkt(B_nextseqnum, ev'.pkt.seqnum, AckPayload)>>
           /\ \/ \E i \in Slots : received'[i] /\ recv_buffer'[i] = ev'.pkt
              \/ \E k \in (Len(delivered) + 1) .. Len(delivered') :
                   /\ delivered'[k].seqnum = ev'.pkt.seqnum
                   /\ delivered'[k].payload = ev'.pkt.payload ]_vars

\* the packet that fills the gap arrived while every other packet of the
\* window was buffered: it took the last free slot and all were delivered
C20_Witness ==
  /\ ev.op = "B_input" /\ ev.deliv = WINDOWSIZE
  /\ ev.sent # <<>>
  /\ Held = {}

====
